---- MODULE Spec2Model ----
(***************************************************************************)
(* Lifecycle of the websocket listener WSDoorImp                           *)
(* (src/ripple/app/websocket/WSDoor.cpp): the factory make_WSDoor, the     *)
(* execution thread's run(), the stop handler onStop() and the destructor. *)
(* Every statement of run() and onStop() that another thread can observe   *)
(* is one step, so that all interleavings of the two are explored.         *)
(***************************************************************************)
EXTENDS Integers, FiniteSets, Sequences, TLC

\* Number of onStop invocations the environment can make.
MaxStops == 2
\* Number of websocketpp::exception failures the transport can raise.
MaxFailures == 5

\* Identities of the threads that take m_endpointLock: the onStop callers are
\* 1..MaxStops, the execution thread is RunThread, Nobody is the free lock.
Callers == 1..MaxStops
RunThread == 0
Nobody == -1

\* The empty std::shared_ptr and the one endpoint object of a listener.
Null == "null"
Ep == "endpoint"

VARIABLES
    factoryPc,      \* position of make_WSDoor
    door,           \* the std::unique_ptr<WSDoor> make_WSDoor returns
    failedStep,     \* the construction step that raised, or "none"
    runPc,          \* position of the execution thread in run()
    aborted,        \* the process was ended by std::terminate
    lockHolder,     \* owner of m_endpointLock
    m_endpoint,     \* the stored endpoint handle
    epStopAsked,    \* endpoint->stop() has been called on the endpoint
    stopPc,         \* position of each onStop invocation
    endpoint,       \* the local copy of each onStop invocation
    copiedAt,       \* where run() was when each onStop took its copy
    shouldExit,     \* beast::Thread's exit flag
    stoppedCount,   \* number of stopped() notifications
    failures,       \* exceptions raised by the serve call so far
    warnings,       \* lsWARNING lines written by run()
    listenCalls,    \* calls of listen()
    ioRunCalls,     \* calls of get_io_service().run()
    sets,           \* assignments of a fresh endpoint to m_endpoint
    clears,         \* executions of m_endpoint.reset()
    epState,        \* the endpoint object: "unbuilt", "alive" or "destroyed"
    dtorPc          \* position of ~WSDoorImp

vars == <<factoryPc, door, failedStep, runPc, aborted, lockHolder, m_endpoint,
          epStopAsked, stopPc, endpoint, copiedAt, shouldExit, stoppedCount,
          failures,
          warnings, listenCalls, ioRunCalls, sets, clears, epState,
          dtorPc>>

factoryVars == <<factoryPc, door>>
stopVars == <<stopPc, endpoint, copiedAt>>
logVars == <<failures, warnings, listenCalls, ioRunCalls>>
handleVars == <<m_endpoint, sets, clears, epState>>

\* The execution thread is parked in the blocking serve call.
Serving == {"listen", "iorun"}
\* The execution thread has left run().
Exited == {"exited", "uncaught"}

\* std::shared_ptr ownership: the endpoint object is destroyed when the last
\* handle to it lets go.  stored and copies are the handles after the step.
epAfterRelease(stored, copies) ==
    IF epState = "alive" /\ stored = Null /\ \A c \in Callers : copies[c] = Null
    THEN "destroyed"
    ELSE epState

Init ==
    /\ factoryPc = "init"
    /\ door = "unset"
    /\ failedStep = "none"
    /\ runPc = "unstarted"
    /\ aborted = FALSE
    /\ lockHolder = Nobody
    /\ m_endpoint = Null
    /\ epStopAsked = FALSE
    /\ stopPc = [c \in Callers |-> "idle"]
    /\ endpoint = [c \in Callers |-> Null]
    /\ copiedAt = [c \in Callers |-> "none"]
    /\ shouldExit = FALSE
    /\ stoppedCount = 0
    /\ failures = 0
    /\ warnings = 0
    /\ listenCalls = 0
    /\ ioRunCalls = 0
    /\ sets = 0
    /\ clears = 0
    /\ epState = "unbuilt"
    /\ dtorPc = "none"

----------------------------------------------------------------------------
(* make_WSDoor and the constructor                                         *)

\* WSDoorImp::WSDoorImp: the members are built and startThread() spawns the
\* execution thread; ok = FALSE is a constructor that raises (allocation or
\* thread spawn).
WSDoorImp_ctor(ok) ==
    IF ok
    THEN /\ runPc' = "log"
         /\ failedStep' = failedStep
         /\ factoryPc' = "constructed"
    ELSE /\ runPc' = runPc
         /\ failedStep' = "spawn"
         /\ factoryPc' = "caught"

\* make_WSDoor, the try block: door = std::make_unique<WSDoorImp>(...).
make_WSDoor_try ==
    /\ ~aborted
    /\ factoryPc = "init"
    /\ \E ok \in BOOLEAN : WSDoorImp_ctor(ok)
    /\ UNCHANGED <<door, aborted, lockHolder, handleVars, epStopAsked, stopVars,
                   shouldExit, stoppedCount, logVars, dtorPc>>

\* make_WSDoor, catch (...) {} followed by return door.
make_WSDoor_return ==
    /\ ~aborted
    /\ factoryPc \in {"constructed", "caught"}
    /\ door' = IF factoryPc = "constructed" THEN "present" ELSE "absent"
    /\ factoryPc' = "returned"
    /\ UNCHANGED <<failedStep, runPc, aborted, lockHolder, handleVars,
                   epStopAsked, stopVars, shouldExit, stoppedCount, logVars,
                   dtorPc>>

----------------------------------------------------------------------------
(* run(), on the execution thread                                          *)

\* An exception leaves run(): nothing in run() catches it, stopped() is not
\* reached.  What the thread's entry point does with it is outside this
\* file: the process is terminated, or the thread just ends.
run_uncaught(step) ==
    /\ runPc' = "uncaught"
    /\ failedStep' = step
    /\ \E terminate \in BOOLEAN : aborted' = terminate

\* WriteLog (lsINFO, WSDoor) << ...
run_log ==
    /\ ~aborted
    /\ runPc = "log"
    /\ runPc' = "handler"
    /\ UNCHANGED <<factoryVars, failedStep, aborted, lockHolder, handleVars,
                   epStopAsked, stopVars, shouldExit, stoppedCount, logVars,
                   dtorPc>>

\* handler (new WSServerHandler <...> (port_, m_resourceManager, m_source))
run_handler ==
    /\ ~aborted
    /\ runPc = "handler"
    /\ \E ok \in BOOLEAN :
         IF ok
         THEN /\ runPc' = "lock_set"
              /\ UNCHANGED <<failedStep, aborted>>
         ELSE run_uncaught("handler")
    /\ UNCHANGED <<factoryVars, lockHolder, handleVars, epStopAsked, stopVars,
                   shouldExit, stoppedCount, logVars, dtorPc>>

\* ScopedLockType lock (m_endpointLock), first block of run()
run_lock_set ==
    /\ ~aborted
    /\ runPc = "lock_set"
    /\ lockHolder = Nobody
    /\ lockHolder' = RunThread
    /\ runPc' = "set"
    /\ UNCHANGED <<factoryVars, failedStep, aborted, handleVars, epStopAsked,
                   stopVars, shouldExit, stoppedCount, logVars, dtorPc>>

\* run_set with the new endpoint kept in a local instead of being stored in
\* m_endpoint.
run_set_unpublished ==
    /\ ~aborted
    /\ runPc = "set"
    /\ lockHolder = RunThread
    /\ \E ok \in BOOLEAN :
         IF ok
         THEN /\ runPc' = "call_listen"
              /\ UNCHANGED <<failedStep, aborted>>
         ELSE run_uncaught("endpoint")
    /\ lockHolder' = Nobody
    /\ UNCHANGED <<factoryVars, handleVars, epStopAsked, stopVars, shouldExit,
                   stoppedCount, logVars, dtorPc>>

\* run_set without the braces that end the lock's scope: the lock stays
\* held when run() goes on to listen ().
run_set_keeps_lock ==
    /\ ~aborted
    /\ runPc = "set"
    /\ lockHolder = RunThread
    /\ \E ok \in BOOLEAN :
         IF ok
         THEN /\ m_endpoint' = Ep
              /\ sets' = sets + 1
              /\ epState' = "alive"
              /\ runPc' = "call_listen"
              /\ lockHolder' = RunThread
              /\ UNCHANGED <<failedStep, aborted>>
         ELSE /\ run_uncaught("endpoint")
              /\ lockHolder' = Nobody
              /\ UNCHANGED <<m_endpoint, sets, epState>>
    /\ UNCHANGED <<factoryVars, clears, epStopAsked, stopVars, shouldExit,
                   stoppedCount, logVars, dtorPc>>

\* m_endpoint = std::make_shared<websocketpp::server_autotls> (handler),
\* and the end of the block, which releases the lock.
run_set ==
    /\ ~aborted
    /\ runPc = "set"
    /\ lockHolder = RunThread
    /\ \E ok \in BOOLEAN :
         IF ok
         THEN /\ m_endpoint' = Ep
              /\ sets' = sets + 1
              /\ epState' = "alive"
              /\ runPc' = "call_listen"
              /\ UNCHANGED <<failedStep, aborted>>
         ELSE /\ run_uncaught("endpoint")
              /\ UNCHANGED <<m_endpoint, sets, epState>>
    /\ lockHolder' = Nobody
    /\ UNCHANGED <<factoryVars, clears, epStopAsked, stopVars, shouldExit,
                   stoppedCount, logVars, dtorPc>>

\* m_endpoint->listen (port_->ip, port_->port): the thread enters the call.
run_call_listen ==
    /\ ~aborted
    /\ runPc = "call_listen"
    /\ runPc' = "listen"
    /\ listenCalls' = listenCalls + 1
    /\ UNCHANGED <<factoryVars, failedStep, aborted, lockHolder, handleVars,
                   epStopAsked, stopVars, shouldExit, stoppedCount, failures,
                   warnings, ioRunCalls, dtorPc>>

\* The blocking serve call raises websocketpp::exception; control passes to
\* the catch clause that encloses the call.
serve_raise ==
    /\ ~aborted
    /\ runPc \in Serving
    /\ failures < MaxFailures
    /\ failures' = failures + 1
    /\ runPc' = IF runPc = "listen" THEN "catch_listen" ELSE "catch_iorun"
    /\ UNCHANGED <<factoryVars, failedStep, aborted, lockHolder, handleVars,
                   epStopAsked, stopVars, shouldExit, stoppedCount, warnings,
                   listenCalls, ioRunCalls, dtorPc>>

\* The blocking serve call returns without raising: it does so once the
\* endpoint has been told to stop.  After listen() control leaves the try
\* statement, after get_io_service().run() the break leaves the loop.
serve_return ==
    /\ ~aborted
    /\ runPc \in Serving
    /\ epStopAsked
    /\ runPc' = "lock_reset"
    /\ UNCHANGED <<factoryVars, failedStep, aborted, lockHolder, handleVars,
                   epStopAsked, stopVars, shouldExit, stoppedCount, logVars,
                   dtorPc>>

\* run_catch that tests the exit flag before retrying and goes to teardown
\* when it is set.
run_catch_checks_flag ==
    /\ ~aborted
    /\ runPc \in {"catch_listen", "catch_iorun"}
    /\ warnings' = warnings + 1
    /\ runPc' = IF shouldExit THEN "lock_reset" ELSE "call_iorun"
    /\ UNCHANGED <<factoryVars, failedStep, aborted, lockHolder, handleVars,
                   epStopAsked, stopVars, shouldExit, stoppedCount, failures,
                   listenCalls, ioRunCalls, dtorPc>>

\* run_catch that reports stopped () from the catch clause and retries.
run_catch_notifies ==
    /\ ~aborted
    /\ runPc \in {"catch_listen", "catch_iorun"}
    /\ warnings' = warnings + 1
    /\ stoppedCount' = stoppedCount + 1
    /\ runPc' = "call_iorun"
    /\ UNCHANGED <<factoryVars, failedStep, aborted, lockHolder, handleVars,
                   epStopAsked, stopVars, shouldExit, failures, listenCalls,
                   ioRunCalls, dtorPc>>

\* run_catch whose inner catch clause (the retried event loop) logs nothing.
run_catch_inner_silent ==
    /\ ~aborted
    /\ runPc \in {"catch_listen", "catch_iorun"}
    /\ warnings' = IF runPc = "catch_listen" THEN warnings + 1 ELSE warnings
    /\ runPc' = "call_iorun"
    /\ UNCHANGED <<factoryVars, failedStep, aborted, lockHolder, handleVars,
                   epStopAsked, stopVars, shouldExit, stoppedCount, failures,
                   listenCalls, ioRunCalls, dtorPc>>

\* run_catch that retries by calling listen () again.
run_catch_relistens ==
    /\ ~aborted
    /\ runPc \in {"catch_listen", "catch_iorun"}
    /\ warnings' = warnings + 1
    /\ runPc' = "call_listen"
    /\ UNCHANGED <<factoryVars, failedStep, aborted, lockHolder, handleVars,
                   epStopAsked, stopVars, shouldExit, stoppedCount, failures,
                   listenCalls, ioRunCalls, dtorPc>>

\* WriteLog (lsWARNING, WSDoor) << "websocketpp exception: " << e.what ()
\* in either catch clause; the thread goes on to for (;;) / the next round.
run_catch ==
    /\ ~aborted
    /\ runPc \in {"catch_listen", "catch_iorun"}
    /\ warnings' = warnings + 1
    /\ runPc' = "call_iorun"
    /\ UNCHANGED <<factoryVars, failedStep, aborted, lockHolder, handleVars,
                   epStopAsked, stopVars, shouldExit, stoppedCount, failures,
                   listenCalls, ioRunCalls, dtorPc>>

\* m_endpoint->get_io_service ().run (): the thread enters the call.
run_call_iorun ==
    /\ ~aborted
    /\ runPc = "call_iorun"
    /\ runPc' = "iorun"
    /\ ioRunCalls' = ioRunCalls + 1
    /\ UNCHANGED <<factoryVars, failedStep, aborted, lockHolder, handleVars,
                   epStopAsked, stopVars, shouldExit, stoppedCount, failures,
                   warnings, listenCalls, dtorPc>>

\* run_lock_reset with the scoped lock left out: the handle is reset at once,
\* whoever holds the lock.
run_reset_unlocked ==
    /\ ~aborted
    /\ runPc = "lock_reset"
    /\ m_endpoint' = Null
    /\ clears' = clears + 1
    /\ epState' = epAfterRelease(Null, endpoint)
    /\ runPc' = "stopped"
    /\ UNCHANGED <<factoryVars, failedStep, aborted, lockHolder, sets,
                   epStopAsked, stopVars, shouldExit, stoppedCount, logVars,
                   dtorPc>>

\* ScopedLockType lock (m_endpointLock), last block of run()
run_lock_reset ==
    /\ ~aborted
    /\ runPc = "lock_reset"
    /\ lockHolder = Nobody
    /\ lockHolder' = RunThread
    /\ runPc' = "reset"
    /\ UNCHANGED <<factoryVars, failedStep, aborted, handleVars, epStopAsked,
                   stopVars, shouldExit, stoppedCount, logVars, dtorPc>>

\* run_reset without the m_endpoint.reset() statement.
run_reset_omitted ==
    /\ ~aborted
    /\ runPc = "reset"
    /\ lockHolder = RunThread
    /\ lockHolder' = Nobody
    /\ runPc' = "stopped"
    /\ UNCHANGED <<factoryVars, failedStep, aborted, handleVars, epStopAsked,
                   stopVars, shouldExit, stoppedCount, logVars, dtorPc>>

\* run_reset on a handle that is the sole owner of the endpoint: the reset
\* destroys the object whoever still uses it.
run_reset_deletes ==
    /\ ~aborted
    /\ runPc = "reset"
    /\ lockHolder = RunThread
    /\ m_endpoint' = Null
    /\ clears' = clears + 1
    /\ epState' = "destroyed"
    /\ lockHolder' = Nobody
    /\ runPc' = "stopped"
    /\ UNCHANGED <<factoryVars, failedStep, aborted, sets, epStopAsked,
                   stopVars, shouldExit, stoppedCount, logVars, dtorPc>>

\* m_endpoint.reset(), and the end of the block, which releases the lock.
run_reset ==
    /\ ~aborted
    /\ runPc = "reset"
    /\ lockHolder = RunThread
    /\ m_endpoint' = Null
    /\ clears' = clears + 1
    /\ epState' = epAfterRelease(Null, endpoint)
    /\ lockHolder' = Nobody
    /\ runPc' = "stopped"
    /\ UNCHANGED <<factoryVars, failedStep, aborted, sets, epStopAsked,
                   stopVars, shouldExit, stoppedCount, logVars, dtorPc>>

\* stopped (), then run() returns.
run_stopped ==
    /\ ~aborted
    /\ runPc = "stopped"
    /\ stoppedCount' = stoppedCount + 1
    /\ runPc' = "exited"
    /\ UNCHANGED <<factoryVars, failedStep, aborted, lockHolder, handleVars,
                   epStopAsked, stopVars, shouldExit, logVars, dtorPc>>

----------------------------------------------------------------------------
(* onStop(), on the thread of each caller c                                *)

\* beast::Thread::signalThreadShouldExit: marks the exit flag, which run()
\* never reads.
signalThreadShouldExit == shouldExit' = TRUE

\* onStop is called on a constructed listener that is not being destroyed;
\* std::shared_ptr<websocketpp::server_autotls> endpoint starts out empty.
onStop_enter(c) ==
    /\ ~aborted
    /\ stopPc[c] = "idle"
    /\ factoryPc \in {"constructed", "returned"}
    /\ dtorPc = "none"
    /\ stopPc' = [stopPc EXCEPT ![c] = "lock_copy"]
    /\ endpoint' = [endpoint EXCEPT ![c] = Null]
    /\ copiedAt' = [copiedAt EXCEPT ![c] = "none"]
    /\ UNCHANGED <<factoryVars, failedStep, runPc, aborted, lockHolder,
                   handleVars, epStopAsked, shouldExit, stoppedCount, logVars,
                   dtorPc>>

\* ScopedLockType lock (m_endpointLock) in onStop
onStop_lock(c) ==
    /\ ~aborted
    /\ stopPc[c] = "lock_copy"
    /\ lockHolder = Nobody
    /\ lockHolder' = c
    /\ stopPc' = [stopPc EXCEPT ![c] = "copy"]
    /\ UNCHANGED <<factoryVars, failedStep, runPc, aborted, handleVars,
                   epStopAsked, endpoint, copiedAt, shouldExit, stoppedCount,
                   logVars, dtorPc>>

\* endpoint = m_endpoint, and the end of the block, which releases the lock.
onStop_copy(c) ==
    /\ ~aborted
    /\ stopPc[c] = "copy"
    /\ lockHolder = c
    /\ endpoint' = [endpoint EXCEPT ![c] = m_endpoint]
    /\ copiedAt' = [copiedAt EXCEPT ![c] = runPc]
    /\ lockHolder' = Nobody
    /\ stopPc' = [stopPc EXCEPT ![c] = "test"]
    /\ UNCHANGED <<factoryVars, failedStep, runPc, aborted, handleVars,
                   epStopAsked, shouldExit, stoppedCount, logVars, dtorPc>>

\* onStop_test with signalThreadShouldExit () moved in front of the
\* endpoint's stop.
onStop_test_signals_first(c) ==
    /\ ~aborted
    /\ stopPc[c] = "test"
    /\ signalThreadShouldExit
    /\ IF endpoint[c] # Null
       THEN /\ epStopAsked' = TRUE
            /\ stopPc' = [stopPc EXCEPT ![c] = "in_stop"]
       ELSE /\ epStopAsked' = epStopAsked
            /\ stopPc' = [stopPc EXCEPT ![c] = "signal"]
    /\ UNCHANGED <<factoryVars, failedStep, runPc, aborted, lockHolder,
                   handleVars, endpoint, copiedAt, stoppedCount, logVars,
                   dtorPc>>

\* if (endpoint) endpoint->stop (): with a non-null copy the caller enters
\* the endpoint's stop, which tells the endpoint to stop serving.
onStop_test(c) ==
    /\ ~aborted
    /\ stopPc[c] = "test"
    /\ IF endpoint[c] # Null
       THEN /\ epStopAsked' = TRUE
            /\ stopPc' = [stopPc EXCEPT ![c] = "in_stop"]
       ELSE /\ epStopAsked' = epStopAsked
            /\ stopPc' = [stopPc EXCEPT ![c] = "signal"]
    /\ UNCHANGED <<factoryVars, failedStep, runPc, aborted, lockHolder,
                   handleVars, endpoint, copiedAt, shouldExit, stoppedCount,
                   logVars, dtorPc>>

\* endpoint->stop () returns to onStop.
onStop_stop_return(c) ==
    /\ ~aborted
    /\ stopPc[c] = "in_stop"
    /\ stopPc' = [stopPc EXCEPT ![c] = "signal"]
    /\ UNCHANGED <<factoryVars, failedStep, runPc, aborted, lockHolder,
                   handleVars, epStopAsked, endpoint, copiedAt, shouldExit,
                   stoppedCount, logVars, dtorPc>>

\* onStop_signal that also reports stopped () when it found no endpoint to
\* stop.
onStop_signal_notifies(c) ==
    /\ ~aborted
    /\ stopPc[c] = "signal"
    /\ signalThreadShouldExit
    /\ stoppedCount' = IF endpoint[c] # Null THEN stoppedCount
                                           ELSE stoppedCount + 1
    /\ endpoint' = [endpoint EXCEPT ![c] = Null]
    /\ epState' = epAfterRelease(m_endpoint, endpoint')
    /\ stopPc' = [stopPc EXCEPT ![c] = "done"]
    /\ UNCHANGED <<factoryVars, failedStep, runPc, aborted, lockHolder,
                   m_endpoint, sets, clears, epStopAsked, copiedAt, logVars,
                   dtorPc>>

\* onStop_signal that also resets the stored handle.
onStop_signal_clears(c) ==
    /\ ~aborted
    /\ stopPc[c] = "signal"
    /\ signalThreadShouldExit
    /\ endpoint' = [endpoint EXCEPT ![c] = Null]
    /\ m_endpoint' = Null
    /\ epState' = epAfterRelease(Null, endpoint')
    /\ stopPc' = [stopPc EXCEPT ![c] = "done"]
    /\ UNCHANGED <<factoryVars, failedStep, runPc, aborted, lockHolder,
                   sets, clears, epStopAsked, copiedAt, stoppedCount, logVars,
                   dtorPc>>

\* signalThreadShouldExit (), then onStop returns and its local copy of the
\* handle is destroyed.
onStop_signal(c) ==
    /\ ~aborted
    /\ stopPc[c] = "signal"
    /\ signalThreadShouldExit
    /\ endpoint' = [endpoint EXCEPT ![c] = Null]
    /\ epState' = epAfterRelease(m_endpoint, endpoint')
    /\ stopPc' = [stopPc EXCEPT ![c] = "done"]
    /\ UNCHANGED <<factoryVars, failedStep, runPc, aborted, lockHolder,
                   m_endpoint, sets, clears, epStopAsked, copiedAt,
                   stoppedCount, logVars, dtorPc>>

----------------------------------------------------------------------------
(* ~WSDoorImp                                                              *)

\* beast::Thread::stopThread waits until the execution thread has left
\* run().
stopThread_joined == runPc \in Exited

\* dtor_enter with an empty destructor body: the listener is destroyed
\* without stopThread ().
dtor_enter_no_stopThread ==
    /\ ~aborted
    /\ dtorPc = "none"
    /\ factoryPc = "returned"
    /\ door = "present"
    /\ \A c \in Callers : stopPc[c] \in {"idle", "done"}
    /\ dtorPc' = "destroyed"
    /\ UNCHANGED <<factoryVars, failedStep, runPc, aborted, lockHolder,
                   handleVars, epStopAsked, stopVars, shouldExit, stoppedCount,
                   logVars>>

\* The owner of the returned listener destroys it, with no onStop call in
\* progress: ~WSDoorImp calls stopThread (), which signals the thread.
dtor_enter ==
    /\ ~aborted
    /\ dtorPc = "none"
    /\ factoryPc = "returned"
    /\ door = "present"
    /\ \A c \in Callers : stopPc[c] \in {"idle", "done"}
    /\ signalThreadShouldExit
    /\ dtorPc' = "stopThread"
    /\ UNCHANGED <<factoryVars, failedStep, runPc, aborted, lockHolder,
                   handleVars, epStopAsked, stopVars, stoppedCount, logVars>>

\* stopThread () returns and the destructor completes.
dtor_exit ==
    /\ ~aborted
    /\ dtorPc = "stopThread"
    /\ stopThread_joined
    /\ dtorPc' = "destroyed"
    /\ UNCHANGED <<factoryVars, failedStep, runPc, aborted, lockHolder,
                   handleVars, epStopAsked, stopVars, shouldExit, stoppedCount,
                   logVars>>

----------------------------------------------------------------------------

\* The steps the execution thread takes by itself.
RunStep ==
    \/ run_log
    \/ run_handler
    \/ run_lock_set
    \/ run_set
    \/ run_call_listen
    \/ run_catch
    \/ run_call_iorun
    \/ run_lock_reset
    \/ run_reset
    \/ run_stopped

\* The steps of one onStop call once it has been entered.
StopStep(c) ==
    \/ onStop_lock(c)
    \/ onStop_copy(c)
    \/ onStop_test(c)
    \/ onStop_stop_return(c)
    \/ onStop_signal(c)

Next ==
    \/ make_WSDoor_try
    \/ make_WSDoor_return
    \/ run_log
    \/ run_handler
    \/ run_lock_set
    \/ run_set
    \/ run_call_listen
    \/ serve_raise
    \/ serve_return
    \/ run_catch
    \/ run_call_iorun
    \/ run_lock_reset
    \/ run_reset
    \/ run_stopped
    \/ \E c \in Callers : onStop_enter(c)
    \/ \E c \in Callers : onStop_lock(c)
    \/ \E c \in Callers : onStop_copy(c)
    \/ \E c \in Callers : onStop_test(c)
    \/ \E c \in Callers : onStop_stop_return(c)
    \/ \E c \in Callers : onStop_signal(c)
    \/ dtor_enter
    \/ dtor_exit

Spec == Init /\ [][Next]_vars

\* Every thread that can take a step eventually takes it, and a serve call
\* whose endpoint was told to stop eventually returns.  Neither a call of
\* onStop nor a transport failure is ever forced to happen.
FairSpec ==
    /\ Spec
    /\ WF_vars(make_WSDoor_return)
    /\ WF_vars(RunStep)
    /\ WF_vars(serve_return)
    /\ \A c \in Callers : WF_vars(StopStep(c))

----------------------------------------------------------------------------
(* Properties                                                              *)

\* C1: however many times onStop is invoked, stopped() is emitted at most
\* once, and no onStop call faults: endpoint->stop() is only ever entered
\* through a non-null copy of the handle.
C1_StoppedAtMostOnce ==
    /\ stoppedCount <= 1
    /\ \A c \in Callers : stopPc[c] = "in_stop" => endpoint[c] # Null

\* Every onStop invocation has run to completion and run() has emitted its
\* one stopped().
C1_Witness ==
    /\ \A c \in Callers : stopPc[c] = "done"
    /\ stoppedCount = 1

\* C2: once onStop has been invoked (any time after startThread), and
\* construction did not fail, the execution thread eventually emits
\* stopped(); the transport returns cleanly once told to stop, after at most
\* MaxFailures failures.
C2_StopLeadsToStopped ==
    (\E c \in Callers : stopPc[c] # "idle")
        ~> (stoppedCount = 1 \/ failedStep # "none")

\* C3: when the handler or the endpoint cannot be constructed on the
\* execution thread, stopped() is still emitted exactly once.
C3_StoppedAfterFailedConstruction ==
    failedStep \in {"handler", "endpoint"} => stoppedCount = 1

\* C4: the execution thread is never left parked in the serve call with an
\* endpoint nobody asked to stop while every onStop call has already
\* returned.
C4_NoStrandedThread ==
    ~ ( /\ runPc \in Serving
        /\ ~epStopAsked
        /\ \A c \in Callers : stopPc[c] = "done" )

\* C5: a failure of the serve call that is handled after a stop has been
\* requested is not retried: from the catch clause the thread goes to
\* teardown, never back into the serve call.
C5_NoRetryAfterStop ==
    [][ (runPc \in {"catch_listen", "catch_iorun"} /\ (shouldExit \/ epStopAsked))
            => runPc' \in {runPc, "lock_reset"} ]_vars

\* C6: stopped() is emitted strictly after the handle was cleared: when
\* stopped() is about to be or has been emitted, m_endpoint.reset() has run
\* and the stored handle is null.
C6_StoppedAfterClear ==
    (runPc = "stopped" \/ stoppedCount >= 1)
        => (m_endpoint = Null /\ clears >= 1)

\* run() published an endpoint, served, cleared the handle and emitted
\* stopped().
C6_Witness ==
    /\ stoppedCount = 1
    /\ sets = 1
    /\ listenCalls = 1
    /\ clears = 1

\* C7: a copy of the handle that onStop takes while the execution thread is
\* inside listen() or inside the retried get_io_service().run() is non-null.
C7_NonNullDuringService ==
    \A c \in Callers :
        (copiedAt[c] \in Serving /\ stopPc[c] \in {"test", "in_stop", "signal"})
            => endpoint[c] # Null

\* An onStop call took its copy while the thread was inside the retried
\* event loop, and holds the endpoint.
C7_Witness ==
    \E c \in Callers :
        /\ stopPc[c] = "test"
        /\ copiedAt[c] = "iorun"
        /\ endpoint[c] = Ep

\* C8: when the endpoint cannot be constructed, make_WSDoor returns an
\* absent listener, no execution thread is left running and no stopped() is
\* emitted.
C8_TotalConstructionFailure ==
    failedStep = "endpoint" =>
        /\ factoryPc = "returned" => door = "absent"
        /\ runPc \in Exited
        /\ stoppedCount = 0

\* C9: a failure of any construction step (thread spawn, handler, endpoint)
\* stays inside make_WSDoor: the host is not terminated and what make_WSDoor
\* returns is the absent listener.
C9_FailureStaysInFactory ==
    failedStep # "none" =>
        /\ ~aborted
        /\ factoryPc = "returned" => door = "absent"

\* C10: once the destructor has completed, the execution thread has left
\* run().
C10_DestroyedAfterThreadExit ==
    dtorPc = "destroyed" => runPc \in Exited

\* The listener served, was stopped, and its destructor completed after
\* run() returned.
C10_Witness ==
    /\ dtorPc = "destroyed"
    /\ runPc = "exited"
    /\ listenCalls = 1
    /\ stoppedCount = 1

\* C11, as stated: every access to m_endpoint is made by a thread that holds
\* m_endpointLock: the stores by run(), its dereferences on entering listen()
\* and the retried get_io_service().run(), and the copy by onStop.
C11_AllAccessLocked ==
    [][ /\ (m_endpoint' # m_endpoint) => lockHolder = RunThread
        /\ (runPc \in {"call_listen", "call_iorun"} /\ runPc' \in Serving)
               => lockHolder = RunThread
        /\ \A c \in Callers :
               (stopPc[c] = "copy" /\ stopPc'[c] = "test") => lockHolder = c
      ]_vars

\* C11, amended: the stores to m_endpoint by run() and the copy by onStop
\* are made holding m_endpointLock; run() dereferences m_endpoint on
\* entering listen() and the retried get_io_service().run() without holding
\* it.
C11_WritesAndCopiesLocked ==
    [][ /\ (m_endpoint' # m_endpoint) => lockHolder = RunThread
        /\ (runPc \in {"call_listen", "call_iorun"} /\ runPc' \in Serving)
               => lockHolder # RunThread
        /\ \A c \in Callers :
               (stopPc[c] = "copy" /\ stopPc'[c] = "test") => lockHolder = c
      ]_vars

\* run() stored and cleared the handle and entered both serve calls, and an
\* onStop call took its copy while run() was serving.
C11_Witness ==
    /\ sets = 1
    /\ clears = 1
    /\ listenCalls = 1
    /\ ioRunCalls >= 1
    /\ \E c \in Callers : copiedAt[c] \in Serving

\* C12: run() starts teardown only in a step in which a serve call returns
\* without raising; from a catch clause it always goes on to another serve
\* attempt; a step that sets the exit flag leaves run() where it is.
C12_TeardownOnlyAfterCleanReturn ==
    [][ /\ (runPc' = "lock_reset" /\ runPc # "lock_reset")
               => (runPc \in Serving /\ failures' = failures)
        /\ (runPc \in {"catch_listen", "catch_iorun"} /\ runPc' # runPc)
               => runPc' = "call_iorun"
        /\ (runPc = "call_iorun" /\ runPc' # runPc) => runPc' = "iorun"
        /\ (shouldExit' # shouldExit) => runPc' = runPc
      ]_vars

\* The exit flag was set while failures were being retried, and run()
\* reached teardown after a clean return.
C12_Witness ==
    /\ runPc = "lock_reset"
    /\ shouldExit
    /\ failures >= 2
    /\ ioRunCalls = failures

\* C13, as stated: whenever the stored handle is non-null the execution
\* thread is inside listen() or the retried get_io_service().run().
C13_NonNullOnlyWhileServing ==
    m_endpoint # Null => runPc \in Serving

\* C13, amended: whenever the stored handle is non-null the execution thread
\* is between its publication (line 88) and its reset (line 119): about to
\* enter a serve call, inside one, in a catch clause between two attempts,
\* or past the serve call and about to reset the handle.
C13_NonNullFromSetToReset ==
    m_endpoint # Null =>
        runPc \in {"call_listen", "listen", "catch_listen", "call_iorun",
                   "iorun", "catch_iorun", "lock_reset", "reset"}

\* The handle is non-null while run() is in a catch clause, outside the
\* serve call.
C13_Witness ==
    /\ m_endpoint = Ep
    /\ runPc = "catch_iorun"

\* C14: the endpoint object is alive whenever a thread uses it: while an
\* onStop call is inside endpoint->stop(), and while run() is entering or
\* inside a serve call, even when the stored handle was cleared meanwhile.
C14_NoUseAfterDestroy ==
    /\ \A c \in Callers : stopPc[c] = "in_stop" => epState = "alive"
    /\ runPc \in {"call_listen", "listen", "call_iorun", "iorun"}
           => epState = "alive"

\* run() has cleared the stored handle while an onStop call is still inside
\* endpoint->stop() on its copy.
C14_Witness ==
    /\ m_endpoint = Null
    /\ clears = 1
    /\ \E c \in Callers : stopPc[c] = "in_stop" /\ endpoint[c] = Ep

\* C15: each onStop call goes copy, then endpoint->stop() if the copy is
\* non-null, then signalThreadShouldExit(): it enters stop() only from the
\* test of a non-null copy and without marking the flag, marks the flag only
\* after stop() returned or was skipped for a null copy, and has marked it
\* when it returns.
C15_StopHandlerOrder ==
    [][ \A c \in Callers :
          /\ (stopPc[c] = "test" /\ stopPc'[c] # "test") =>
                 IF endpoint[c] # Null
                 THEN stopPc'[c] = "in_stop" /\ epStopAsked'
                      /\ shouldExit' = shouldExit
                 ELSE stopPc'[c] = "signal" /\ epStopAsked' = epStopAsked
                      /\ shouldExit' = shouldExit
          /\ (stopPc'[c] = "in_stop" /\ stopPc[c] # "in_stop") =>
                 (stopPc[c] = "test" /\ copiedAt[c] # "none")
          /\ (stopPc[c] = "in_stop" /\ stopPc'[c] # "in_stop") =>
                 (stopPc'[c] = "signal" /\ shouldExit' = shouldExit)
          /\ (stopPc'[c] = "done" /\ stopPc[c] # "done") =>
                 (stopPc[c] = "signal" /\ shouldExit')
      ]_vars

\* One onStop call stopped the endpoint and one found a null handle; both
\* returned with the flag marked.
C15_Witness ==
    /\ shouldExit
    /\ epStopAsked
    /\ \E c \in Callers : stopPc[c] = "done" /\ copiedAt[c] \in Serving
    /\ \E c \in Callers : stopPc[c] = "done" /\ copiedAt[c] = "handler"

\* C16: a step that changes the stored handle is a step of run() at its
\* store or its reset, never a step of onStop; the handle is stored at most
\* once, exactly once by the time run() goes on to the serve call, and
\* cleared at most once, after it was stored.
C16_OnlyRunWritesHandle ==
    [][ /\ (m_endpoint' # m_endpoint) =>
               (runPc \in {"set", "reset"} /\ runPc' # runPc /\ stopPc' = stopPc)
        /\ sets' <= 1
        /\ clears' <= sets'
        /\ (runPc' \in {"call_listen", "listen"}) => sets' = 1
      ]_vars

\* An onStop call that stopped the endpoint has returned and the stored
\* handle is still the one run() published.
C16_Witness ==
    /\ m_endpoint = Ep
    /\ sets = 1
    /\ \E c \in Callers : stopPc[c] = "done" /\ copiedAt[c] \in Serving

C18_OneWarningPerFailure ==
    warnings = failures -
        (IF runPc \in {"catch_listen", "catch_iorun"} THEN 1 ELSE 0)

\* Several failures were raised and logged, the last ones from the retried
\* event loop, and the serve call then returned cleanly.
C18_Witness ==
    /\ failures >= 3
    /\ warnings = failures
    /\ runPc = "exited"

\* C19: m_endpointLock is held only by run() at its store or reset and by an
\* onStop call at its copy: never by a thread inside listen(), inside the
\* retried get_io_service().run() or inside endpoint->stop().
C19_NoLockAcrossBlockingCall ==
    /\ lockHolder = RunThread => runPc \in {"set", "reset"}
    /\ \A c \in Callers : lockHolder = c => stopPc[c] = "copy"
    /\ lockHolder \in {Nobody, RunThread} \cup Callers

\* An onStop call holds the lock for its copy while run() is parked in the
\* serve call and another onStop call is inside endpoint->stop().
C19_Witness ==
    /\ runPc \in Serving
    /\ \E c \in Callers : lockHolder = c /\ stopPc[c] = "copy"
    /\ \E c \in Callers : stopPc[c] = "in_stop"

\* C20: listen() is called at most once and the endpoint is made at most
\* once; every retry enters get_io_service().run(): the calls of it equal
\* the failures raised, less the one whose retry has not been entered yet.
C20_ListenAtMostOnce ==
    /\ listenCalls <= 1
    /\ sets <= 1
    /\ ioRunCalls = failures -
           (IF runPc \in {"catch_listen", "catch_iorun", "call_iorun"}
            THEN 1 ELSE 0)

\* Every allowed failure was raised and retried in the event loop, with one
\* call of listen().
C20_Witness ==
    /\ listenCalls = 1
    /\ failures >= 3
    /\ ioRunCalls = failures
    /\ runPc = "exited"

====
